---------------------------- MODULE Spec2Model ----------------------------
(***************************************************************************)
(* MemoryStore of src/models/memory.js: an in-memory session store with    *)
(* two tables (sessions, session_timers), lazy expiration on read          *)
(* (getSession) and a periodic timeout checker (setInterval callback).     *)
(*                                                                         *)
(* JavaScript runs every handler to completion, so each public method,     *)
(* the interval callback and each deferred callback is one atomic action.  *)
(***************************************************************************)
EXTENDS Integers, Sequences, FiniteSets, TLC

(***************************************************************************)
(* Bounds of the model.                                                    *)
(***************************************************************************)
\* Date.now() ranges over 0..MaxTime
MaxTime == 1
\* options.timeout ranges over -1..MaxTimeout
MaxTimeout == 1
\* at most MaxPending callbacks wait in the setImmediate queue
MaxPending == 2
\* TraceSpec records at most MaxCalls invocations that pass a callback
MaxCalls == 2

SessionIds == {"a", "b"}
DataValues == {1, 2}

(***************************************************************************)
(* JavaScript values.                                                      *)
(***************************************************************************)
Undefined == [undefined |-> TRUE]
Null == [null |-> TRUE]
DateOf(t) == [date |-> t]
StringOf(t) == [string |-> t]

Times == 0..MaxTime
\* cookie.expires as a caller passes it: no expiry, or a Date
ExpiresValues == {Undefined} \cup {DateOf(t) : t \in Times}
\* a session object: one non-cookie field and the cookie
Sessions == [data : DataValues, cookie : [expires : ExpiresValues]]
Timeouts == (0 - 1)..MaxTimeout
\* a session object without a cookie, which set stores like any other
CookielessSessions == [data : DataValues]
\* the TypeError that reading a property of undefined throws
TypeError == [thrown |-> "TypeError"]

(***************************************************************************)
(* The codec.  JSON.stringify turns a Date into its ISO string (toJSON)    *)
(* and leaves out an undefined property; JSON.parse gives the string back  *)
(* as a string, not as a Date.  A session without a cookie is stored       *)
(* without one.                                                            *)
(***************************************************************************)
ToJSON(v) == IF "date" \in DOMAIN v THEN StringOf(v.date) ELSE v

JSONstringify(session) ==
    [text |-> IF "cookie" \in DOMAIN session
              THEN [data |-> session.data,
                    cookie |-> [expires |-> ToJSON(session.cookie.expires)]]
              ELSE [data |-> session.data]]

JSONparse(str) == str.text

\* new Date(isoString).  A Date compares by its time value.
NewDate(v) == DateOf(v.string)

Truthy(v) == v # Undefined /\ v # Null

(***************************************************************************)
(* Tables are functions whose domain is the set of own keys.               *)
(***************************************************************************)
Delete(table, key) == [k \in DOMAIN table \ {key} |-> table[k]]
\* mutant: an own key keeps the value it has
PutIfAbsent(table, key, value) ==
    IF key \in DOMAIN table THEN table ELSE (key :> value) @@ table

Put(table, key, value) == (key :> value) @@ table
EmptyTable == [k \in {} |-> Undefined]

VARIABLES
    sessions,                \* this.sessions: id -> serialized session
    session_timers,          \* this.session_timers: id -> remaining ticks
    options,                 \* this.options
    session_timeout_checker, \* TRUE iff the interval timer was installed
    immediates,              \* setImmediate queue of deferred callbacks
    now,                     \* Date.now()
    idleSweeps,              \* history: checker cycles since set created the
                             \* id with no read since, -1 when not tracked
    lookups,                 \* history: the operations that read the id
                             \* since the last checker cycle; {"expired"}
                             \* once a lookup has evicted it
    written,                 \* history: the session the latest set gave the
                             \* id, until the id is touched or removed
    invoked,                 \* history: the callbacks queued, oldest first
    delivered                \* history: the callbacks run, oldest first

vars == <<sessions, session_timers, options, session_timeout_checker,
          immediates, now, idleSweeps, lookups, written, invoked, delivered>>

tables == <<sessions, session_timers>>

\* the history that TraceSpec records and the other specifications leave out
trace == <<written, invoked, delivered>>

(***************************************************************************)
(* getSession (private): the expiration-aware lookup shared by get, touch  *)
(* and all.  It returns the tables it leaves behind and its return value,  *)
(* or TypeError in its place when sess.cookie.expires throws.              *)
(***************************************************************************)
\* mutant: the comparison with Date.now() is strict
ExpiredStrictly(expires) == Truthy(expires) /\ expires.date < now

Expired(expires) == Truthy(expires) /\ expires.date <= now

\* mutant: an expired session is deleted from this.sessions only
getSessionKeepsTimer(S, T, sessionId) ==
    IF sessionId \notin DOMAIN S
    THEN [sessions |-> S, session_timers |-> T, ret |-> Undefined]
    ELSE LET prolonged == Put(T, sessionId, options.timeout)
             sess == JSONparse(S[sessionId])
             expires == IF "string" \in DOMAIN sess.cookie.expires
                        THEN NewDate(sess.cookie.expires)
                        ELSE sess.cookie.expires
         IN  IF Truthy(expires) /\ expires.date <= now
             THEN [sessions |-> Delete(S, sessionId),
                   session_timers |-> prolonged,
                   ret |-> Undefined]
             ELSE [sessions |-> S, session_timers |-> prolonged, ret |-> sess]

\* mutant: a lookup does not prolong the session's life
getSessionNoProlong(S, T, sessionId) ==
    IF sessionId \notin DOMAIN S
    THEN [sessions |-> S, session_timers |-> T, ret |-> Undefined]
    ELSE LET sess == JSONparse(S[sessionId])
             expires == IF "string" \in DOMAIN sess.cookie.expires
                        THEN NewDate(sess.cookie.expires)
                        ELSE sess.cookie.expires
         IN  IF Truthy(expires) /\ expires.date <= now
             THEN [sessions |-> Delete(S, sessionId),
                   session_timers |-> Delete(T, sessionId),
                   ret |-> Undefined]
             ELSE [sessions |-> S, session_timers |-> T, ret |-> sess]

getSession(S, T, sessionId) ==
    IF sessionId \notin DOMAIN S
    THEN [sessions |-> S, session_timers |-> T, ret |-> Undefined]
    ELSE LET prolonged == Put(T, sessionId, options.timeout)
             sess == JSONparse(S[sessionId])
             expires == IF "string" \in DOMAIN sess.cookie.expires
                        THEN NewDate(sess.cookie.expires)
                        ELSE sess.cookie.expires
         IN  IF "cookie" \notin DOMAIN sess
             THEN [sessions |-> S, session_timers |-> prolonged,
                   ret |-> TypeError]
             ELSE IF Expired(expires)
                  THEN [sessions |-> Delete(S, sessionId),
                        session_timers |-> Delete(prolonged, sessionId),
                        ret |-> Undefined]
                  ELSE [sessions |-> S, session_timers |-> prolonged,
                        ret |-> sess]

(***************************************************************************)
(* defer(callback, args...): the callback waits in the setImmediate queue. *)
(* "callback && defer(...)" queues nothing when no callback was passed.    *)
(***************************************************************************)
\* mutant: the newest callback is put in front of the waiting ones
deferNewestFirst(entry) ==
    /\ Len(immediates) < MaxPending
    /\ immediates' = <<entry>> \o immediates

defer(entry) ==
    /\ Len(immediates) < MaxPending
    /\ immediates' = Append(immediates, entry)

deferIf(callback, entry) ==
    IF callback THEN defer(entry) ELSE UNCHANGED immediates

(***************************************************************************)
(* History variables.  A lookup of an id by operation `kind` ends the      *)
(* tracking of the id's idle cycles.  Before and After are this.sessions   *)
(* before and after the lookup.                                            *)
(***************************************************************************)
NoteLookups(ids, kind, Before, After) ==
    /\ idleSweeps' = [i \in SessionIds |->
                        IF i \in ids THEN 0 - 1 ELSE idleSweeps[i]]
    /\ lookups' = [i \in SessionIds |->
                        IF i \notin ids \/ i \notin DOMAIN Before
                        THEN lookups[i]
                        ELSE IF i \in DOMAIN After
                             THEN lookups[i] \cup {kind}
                             ELSE {"expired"}]

\* values of written[id] other than a session
NeverSet == [never |-> TRUE]
Untracked == [untracked |-> TRUE]

NoteRemoved(ids) ==
    /\ idleSweeps' = [i \in SessionIds |->
                        IF i \in ids THEN 0 - 1 ELSE idleSweeps[i]]
    /\ lookups' = [i \in SessionIds |->
                        IF i \in ids THEN {} ELSE lookups[i]]

(***************************************************************************)
(* MemoryStore(options)                                                    *)
(***************************************************************************)
\* mutant: the checker is installed whatever options.timeout is
InitAlwaysChecks ==
    /\ sessions = EmptyTable
    /\ session_timers = EmptyTable
    /\ options \in [timeout : Timeouts]
    /\ session_timeout_checker = TRUE
    /\ immediates = << >>
    /\ now = 0
    /\ idleSweeps = [i \in SessionIds |-> 0 - 1]
    /\ lookups = [i \in SessionIds |-> {}]
    /\ written = [i \in SessionIds |-> NeverSet]
    /\ invoked = << >>
    /\ delivered = << >>

Init ==
    /\ sessions = EmptyTable
    /\ session_timers = EmptyTable
    /\ options \in [timeout : Timeouts]
    /\ session_timeout_checker = (options.timeout >= 0)
    /\ immediates = << >>
    /\ now = 0
    /\ idleSweeps = [i \in SessionIds |-> 0 - 1]
    /\ lookups = [i \in SessionIds |-> {}]
    /\ written = [i \in SessionIds |-> NeverSet]
    /\ invoked = << >>
    /\ delivered = << >>

(***************************************************************************)
(* MemoryStore.prototype.get                                               *)
(***************************************************************************)
Get(sessionId) ==
    LET r == getSession(sessions, session_timers, sessionId)
    IN  /\ sessions' = r.sessions
        /\ session_timers' = r.session_timers
        /\ IF r.ret = TypeError
           THEN UNCHANGED immediates
           ELSE defer([op |-> "get", id |-> sessionId,
                       args |-> <<Null, r.ret>>])
        /\ NoteLookups({sessionId}, "get", sessions, r.sessions)
        /\ UNCHANGED <<options, session_timeout_checker, now>>

(***************************************************************************)
(* MemoryStore.prototype.set                                               *)
(***************************************************************************)
\* mutant: creating a session restarts the timer of every session
SetTimersOfAll(T, S, sessionId) ==
    IF sessionId \notin DOMAIN S
    THEN [k \in DOMAIN T \cup {sessionId} |-> options.timeout]
    ELSE T

\* mutant: set restarts the timer of an existing session too
SetTimersAlways(T, S, sessionId) == Put(T, sessionId, options.timeout)

SetTimers(T, S, sessionId) ==
    IF sessionId \notin DOMAIN S
    THEN Put(T, sessionId, options.timeout)
    ELSE T

Set(sessionId, session, callback) ==
    /\ session_timers' = SetTimers(session_timers, sessions, sessionId)
    /\ sessions' = Put(sessions, sessionId, JSONstringify(session))
    /\ deferIf(callback, [op |-> "set", id |-> sessionId, args |-> << >>])
    /\ IF sessionId \notin DOMAIN sessions
       THEN /\ idleSweeps' = [idleSweeps EXCEPT ![sessionId] = 0]
            /\ lookups' = [lookups EXCEPT ![sessionId] = {}]
       ELSE UNCHANGED <<idleSweeps, lookups>>
    /\ UNCHANGED <<options, session_timeout_checker, now>>

(***************************************************************************)
(* MemoryStore.prototype.touch                                             *)
(***************************************************************************)
\* mutant: touch stores the session it was given, not only its cookie
TouchSessionsWhole(S, currentSession, sessionId, session) ==
    IF currentSession # Undefined
    THEN Put(S, sessionId, JSONstringify(session))
    ELSE S

\* mutant: touch stores the cookie although no current session was found
TouchSessionsUpsert(S, currentSession, sessionId, session) ==
    IF currentSession # Undefined
    THEN Put(S, sessionId,
             JSONstringify([currentSession EXCEPT !.cookie = session.cookie]))
    ELSE Put(S, sessionId,
             JSONstringify([data |-> session.data, cookie |-> session.cookie]))

TouchSessions(S, currentSession, sessionId, session) ==
    IF currentSession # Undefined
    THEN Put(S, sessionId,
             JSONstringify([currentSession EXCEPT !.cookie = session.cookie]))
    ELSE S

\* mutant: touch leaves the timer of the session it finds as it was
TouchKeepsTimer(sessionId, session, callback) ==
    LET r == getSession(sessions, session_timers, sessionId)
    IN  /\ sessions' = TouchSessions(r.sessions, r.ret, sessionId, session)
        /\ session_timers' = IF r.ret # Undefined
                              THEN session_timers
                              ELSE r.session_timers
        /\ deferIf(callback, [op |-> "touch", id |-> sessionId, args |-> << >>])
        /\ NoteLookups({sessionId}, "touch", sessions, r.sessions)
        /\ UNCHANGED <<options, session_timeout_checker, now>>

Touch(sessionId, session, callback) ==
    LET r == getSession(sessions, session_timers, sessionId)
    IN  /\ sessions' = IF r.ret = TypeError
                       THEN r.sessions
                       ELSE TouchSessions(r.sessions, r.ret, sessionId, session)
        /\ session_timers' = r.session_timers
        /\ IF r.ret = TypeError
           THEN UNCHANGED immediates
           ELSE deferIf(callback,
                        [op |-> "touch", id |-> sessionId, args |-> << >>])
        /\ NoteLookups({sessionId}, "touch", sessions, r.sessions)
        /\ UNCHANGED <<options, session_timeout_checker, now>>

(***************************************************************************)
(* MemoryStore.prototype.destroy                                           *)
(***************************************************************************)
\* mutant: destroy forgets the timer entry
destroySessionOnly(S, T, sessionId) ==
    [sessions |-> Delete(S, sessionId), session_timers |-> T]

destroy(S, T, sessionId) ==
    [sessions |-> Delete(S, sessionId), session_timers |-> Delete(T, sessionId)]

Destroy(sessionId, callback) ==
    LET r == destroy(sessions, session_timers, sessionId)
    IN  /\ sessions' = r.sessions
        /\ session_timers' = r.session_timers
        /\ deferIf(callback, [op |-> "destroy", id |-> sessionId, args |-> << >>])
        /\ NoteRemoved({sessionId})
        /\ UNCHANGED <<options, session_timeout_checker, now>>

(***************************************************************************)
(* MemoryStore.prototype.clear                                             *)
(***************************************************************************)
Clear(callback) ==
    /\ sessions' = EmptyTable
    /\ session_timers' = EmptyTable
    /\ deferIf(callback, [op |-> "clear", args |-> << >>])
    /\ NoteRemoved(SessionIds)
    /\ UNCHANGED <<options, session_timeout_checker, now>>

(***************************************************************************)
(* MemoryStore.prototype.all: the loop over Object.keys(this.sessions).    *)
(* The keys come in the order of their insertion, which the tables do not  *)
(* record: every order is possible.  A TypeError thrown by getSession      *)
(* ends the loop and all; `unvisited` are the keys it did not get to.      *)
(***************************************************************************)
ObjectKeys(table) ==
    {keys \in [1..Cardinality(DOMAIN table) -> DOMAIN table] :
        \A i, j \in DOMAIN keys : i # j => keys[i] # keys[j]}

\* mutant: the loop lacks "if (session)"
RECURSIVE allLoopKeepsUndefined(_, _, _, _)
allLoopKeepsUndefined(sessionIds, S, T, out) ==
    IF Len(sessionIds) = 0
    THEN [sessions |-> S, session_timers |-> T, ret |-> out]
    ELSE LET sessionId == Head(sessionIds)
             r == getSession(S, T, sessionId)
         IN  allLoopKeepsUndefined(Tail(sessionIds), r.sessions,
                                   r.session_timers,
                                   Put(out, sessionId, r.ret))

RECURSIVE allLoop(_, _, _, _)
allLoop(sessionIds, S, T, out) ==
    IF Len(sessionIds) = 0
    THEN [sessions |-> S, session_timers |-> T, ret |-> out]
    ELSE LET sessionId == Head(sessionIds)
             r == getSession(S, T, sessionId)
         IN  IF r.ret = TypeError
             THEN [sessions |-> r.sessions,
                   session_timers |-> r.session_timers,
                   ret |-> TypeError,
                   unvisited |-> {sessionIds[i] : i \in 2..Len(sessionIds)}]
             ELSE allLoop(Tail(sessionIds), r.sessions, r.session_timers,
                          IF r.ret # Undefined
                          THEN Put(out, sessionId, r.ret)
                          ELSE out)

\* mutant: all reads the records and leaves both tables as they were
allReadOnly(sessionIds, S, T) ==
    [sessions |-> S,
     session_timers |-> T,
     ret |-> allLoop(sessionIds, S, T, EmptyTable).ret]

all(sessionIds, S, T) == allLoop(sessionIds, S, T, EmptyTable)

\* the ids that all has looked up when it returns or throws
Visited(r) ==
    IF r.ret = TypeError THEN DOMAIN sessions \ r.unvisited ELSE DOMAIN sessions

All(callback) ==
    \E sessionIds \in ObjectKeys(sessions) :
       LET r == all(sessionIds, sessions, session_timers)
       IN  /\ sessions' = r.sessions
           /\ session_timers' = r.session_timers
           /\ IF r.ret = TypeError
              THEN UNCHANGED immediates
              ELSE deferIf(callback, [op |-> "all", args |-> <<Null, r.ret>>])
           /\ NoteLookups(Visited(r), "all", sessions, r.sessions)
           /\ UNCHANGED <<options, session_timeout_checker, now>>

(***************************************************************************)
(* MemoryStore.prototype.length: all() with a callback that counts the     *)
(* keys of the mapping it is given.                                        *)
(***************************************************************************)
\* mutant: length counts the unexpired records without looking them up
LengthPeeks ==
    \E sessionIds \in ObjectKeys(sessions) :
       LET r == all(sessionIds, sessions, session_timers)
       IN  /\ UNCHANGED <<sessions, session_timers>>
           /\ defer([op |-> "length", args |-> <<Null, r.ret>>])
           /\ NoteLookups(Visited(r), "all", sessions, sessions)
           /\ UNCHANGED <<options, session_timeout_checker, now>>

Length ==
    \E sessionIds \in ObjectKeys(sessions) :
       LET r == all(sessionIds, sessions, session_timers)
       IN  /\ sessions' = r.sessions
           /\ session_timers' = r.session_timers
           /\ IF r.ret = TypeError
              THEN UNCHANGED immediates
              ELSE defer([op |-> "length", args |-> <<Null, r.ret>>])
           /\ NoteLookups(Visited(r), "all", sessions, r.sessions)
           /\ UNCHANGED <<options, session_timeout_checker, now>>

\* mutant: the callback of get is given what the lookup finds when it runs
CallbackArgsAtDelivery(entry) ==
    IF entry.op = "length"
    THEN <<Null, Cardinality(DOMAIN entry.args[2])>>
    ELSE IF entry.op = "get"
         THEN <<Null, getSession(sessions, session_timers, entry.id).ret>>
         ELSE entry.args

\* what the caller's callback receives when the queued callback runs
CallbackArgs(entry) ==
    IF entry.op = "length"
    THEN <<Null, Cardinality(DOMAIN entry.args[2])>>
    ELSE entry.args

(***************************************************************************)
(* The session timeout checker: one run of the setInterval callback.       *)
(***************************************************************************)
\* mutant: the timer is decremented before it is compared with 0
RECURSIVE checkerLoopDecrementsFirst(_, _, _)
checkerLoopDecrementsFirst(sessionIds, S, T) ==
    IF sessionIds = {}
    THEN [sessions |-> S, session_timers |-> T]
    ELSE LET sessionId == CHOOSE i \in sessionIds : TRUE
             rest == sessionIds \ {sessionId}
         IN  IF T[sessionId] - 1 <= 0
             THEN checkerLoopDecrementsFirst(rest, Delete(S, sessionId),
                                             Delete(T, sessionId))
             ELSE checkerLoopDecrementsFirst(rest, S,
                              [T EXCEPT ![sessionId] = T[sessionId] - 1])

\* mutant: a session is destroyed once its timer is below 0
RECURSIVE checkerLoopBelowZero(_, _, _)
checkerLoopBelowZero(sessionIds, S, T) ==
    IF sessionIds = {}
    THEN [sessions |-> S, session_timers |-> T]
    ELSE LET sessionId == CHOOSE i \in sessionIds : TRUE
             rest == sessionIds \ {sessionId}
         IN  IF T[sessionId] < 0
             THEN LET r == destroy(S, T, sessionId)
                  IN  checkerLoopBelowZero(rest, r.sessions, r.session_timers)
             ELSE checkerLoopBelowZero(rest, S,
                              [T EXCEPT ![sessionId] = T[sessionId] - 1])

\* mutant: the cycle ends with the first session it destroys
RECURSIVE checkerLoopEndsAtDestroy(_, _, _)
checkerLoopEndsAtDestroy(sessionIds, S, T) ==
    IF sessionIds = {}
    THEN [sessions |-> S, session_timers |-> T]
    ELSE LET sessionId == CHOOSE i \in sessionIds : TRUE
             rest == sessionIds \ {sessionId}
         IN  IF T[sessionId] = 0
             THEN destroy(S, T, sessionId)
             ELSE checkerLoopEndsAtDestroy(rest, S,
                              [T EXCEPT ![sessionId] = T[sessionId] - 1])

RECURSIVE checkerLoop(_, _, _)
checkerLoop(sessionIds, S, T) ==
    IF sessionIds = {}
    THEN [sessions |-> S, session_timers |-> T]
    ELSE LET sessionId == CHOOSE i \in sessionIds : TRUE
             rest == sessionIds \ {sessionId}
         IN  IF T[sessionId] = 0
             THEN LET r == destroy(S, T, sessionId)
                  IN  checkerLoop(rest, r.sessions, r.session_timers)
             ELSE checkerLoop(rest, S,
                              [T EXCEPT ![sessionId] = T[sessionId] - 1])

Sweep ==
    LET r == checkerLoop(DOMAIN session_timers, sessions, session_timers)
    IN  /\ session_timeout_checker
        /\ sessions' = r.sessions
        /\ session_timers' = r.session_timers
        /\ idleSweeps' = [i \in SessionIds |->
                            IF i \in DOMAIN r.sessions /\ idleSweeps[i] >= 0
                            THEN idleSweeps[i] + 1
                            ELSE 0 - 1]
        /\ lookups' = [i \in SessionIds |-> {}]
        /\ UNCHANGED <<options, session_timeout_checker, immediates, now>>

(***************************************************************************)
(* The event loop runs the oldest deferred callback; the clock advances.   *)
(***************************************************************************)
RunImmediate ==
    /\ immediates # << >>
    /\ immediates' = Tail(immediates)
    /\ UNCHANGED <<tables, options, session_timeout_checker, now,
                   idleSweeps, lookups>>

Tick ==
    /\ now < MaxTime
    /\ now' = now + 1
    /\ UNCHANGED <<tables, options, session_timeout_checker, immediates,
                   idleSweeps, lookups>>

(***************************************************************************)
(* Spec: a caller that invokes the next operation once the callback of the *)
(* previous one has run.  The timeout checker and the clock are free to    *)
(* run between an invocation and its callback.                             *)
(***************************************************************************)
CallerIdle == immediates = << >>

Next ==
    \/ \E sessionId \in SessionIds :
          CallerIdle /\ Get(sessionId) /\ UNCHANGED trace
    \/ \E sessionId \in SessionIds, session \in Sessions, callback \in BOOLEAN :
          CallerIdle /\ Set(sessionId, session, callback) /\ UNCHANGED trace
    \/ \E sessionId \in SessionIds, session \in Sessions, callback \in BOOLEAN :
          CallerIdle /\ Touch(sessionId, session, callback) /\ UNCHANGED trace
    \/ \E sessionId \in SessionIds, callback \in BOOLEAN :
          CallerIdle /\ Destroy(sessionId, callback) /\ UNCHANGED trace
    \/ \E callback \in BOOLEAN : CallerIdle /\ All(callback) /\ UNCHANGED trace
    \/ \E callback \in BOOLEAN : CallerIdle /\ Clear(callback) /\ UNCHANGED trace
    \/ CallerIdle /\ Length /\ UNCHANGED trace
    \/ Sweep /\ UNCHANGED trace
    \/ RunImmediate /\ UNCHANGED trace
    \/ Tick /\ UNCHANGED trace

Spec == Init /\ [][Next]_vars

(***************************************************************************)
(* TraceSpec: a caller that does not wait for callbacks, on one id, with   *)
(* the history of what was set and of the callbacks queued and run.        *)
(***************************************************************************)
TraceIds == {"a"}
TraceSessions == {session \in Sessions : session.data = 1}

\* written after a step: `changed` maps the ids the operation names to
\* their new value; an id that leaves this.sessions is no longer tracked
NoteWritten(changed) ==
    written' = [i \in SessionIds |->
                  IF i \in DOMAIN changed
                  THEN changed[i]
                  ELSE IF i \in DOMAIN sessions /\ i \notin DOMAIN sessions'
                       THEN Untracked
                       ELSE written[i]]

\* an operation invoked with a callback is the latest invocation;
\* `entry` is the operation with the result it has at the invocation
NoteInvoked(callback, entry) ==
    /\ IF callback
       THEN Len(invoked) < MaxCalls /\ invoked' = Append(invoked, entry)
       ELSE invoked' = invoked
    /\ delivered' = delivered

\* a step of the store's own: no callback is queued or run
NoteNothing == NoteWritten(EmptyTable) /\ UNCHANGED <<invoked, delivered>>

\* the mapping that all computes from the tables as they are
AllResult ==
    all(CHOOSE sessionIds \in ObjectKeys(sessions) : TRUE,
        sessions, session_timers).ret

\* the event loop runs the oldest callback with the arguments it was given
Deliver ==
    /\ RunImmediate
    /\ delivered' = Append(delivered, [op |-> Head(immediates).op,
                                       args |-> CallbackArgs(Head(immediates))])
    /\ UNCHANGED <<written, invoked>>

TraceNext ==
    \/ \E sessionId \in TraceIds :
          /\ Get(sessionId)
          /\ NoteWritten(EmptyTable)
          /\ NoteInvoked(TRUE,
                [op |-> "get", id |-> sessionId,
                 args |-> <<Null, getSession(sessions, session_timers,
                                             sessionId).ret>>])
    \/ \E sessionId \in TraceIds, session \in TraceSessions,
          callback \in BOOLEAN :
             /\ Set(sessionId, session, callback)
             /\ NoteWritten(sessionId :> session)
             /\ NoteInvoked(callback,
                   [op |-> "set", id |-> sessionId, args |-> << >>])
    \/ \E sessionId \in TraceIds, session \in TraceSessions,
          callback \in BOOLEAN :
             /\ Touch(sessionId, session, callback)
             /\ NoteWritten(IF sessionId \in DOMAIN sessions
                            THEN sessionId :> Untracked
                            ELSE EmptyTable)
             /\ NoteInvoked(callback,
                   [op |-> "touch", id |-> sessionId, args |-> << >>])
    \/ \E sessionId \in TraceIds, callback \in BOOLEAN :
          /\ Destroy(sessionId, callback)
          /\ NoteWritten(EmptyTable)
          /\ NoteInvoked(callback,
                [op |-> "destroy", id |-> sessionId, args |-> << >>])
    \/ \E callback \in BOOLEAN :
          /\ All(callback)
          /\ NoteWritten(EmptyTable)
          /\ NoteInvoked(callback, [op |-> "all", args |-> <<Null, AllResult>>])
    \/ \E callback \in BOOLEAN :
          /\ Clear(callback)
          /\ NoteWritten(EmptyTable)
          /\ NoteInvoked(callback, [op |-> "clear", args |-> << >>])
    \/ /\ Length
       /\ NoteWritten(EmptyTable)
       /\ NoteInvoked(TRUE, [op |-> "length", args |-> <<Null, AllResult>>])
    \/ Sweep /\ NoteNothing
    \/ Deliver
    \/ Tick /\ NoteNothing

TraceSpec == Init /\ [][TraceNext]_vars

\* the event loop does not leave a queued callback waiting for ever
FairSpec == TraceSpec /\ WF_vars(Deliver)

(***************************************************************************)
(* FailSpec: the caller of Spec, who may also set a session that has no    *)
(* cookie.  A method that throws queues no callback, so the caller goes    *)
(* on with the queue empty.                                                *)
(***************************************************************************)
AnySessions == Sessions \cup CookielessSessions

FailNext ==
    \/ \E sessionId \in SessionIds :
          CallerIdle /\ Get(sessionId) /\ UNCHANGED trace
    \/ \E sessionId \in SessionIds, session \in AnySessions,
          callback \in BOOLEAN :
             CallerIdle /\ Set(sessionId, session, callback) /\ UNCHANGED trace
    \/ \E sessionId \in SessionIds, session \in Sessions, callback \in BOOLEAN :
          CallerIdle /\ Touch(sessionId, session, callback) /\ UNCHANGED trace
    \/ \E sessionId \in SessionIds, callback \in BOOLEAN :
          CallerIdle /\ Destroy(sessionId, callback) /\ UNCHANGED trace
    \/ \E callback \in BOOLEAN : CallerIdle /\ All(callback) /\ UNCHANGED trace
    \/ \E callback \in BOOLEAN : CallerIdle /\ Clear(callback) /\ UNCHANGED trace
    \/ CallerIdle /\ Length /\ UNCHANGED trace
    \/ Sweep /\ UNCHANGED trace
    \/ RunImmediate /\ UNCHANGED trace
    \/ Tick /\ UNCHANGED trace

FailSpec == Init /\ [][FailNext]_vars

(***************************************************************************)
(* Vocabulary of the properties.  An implication "step is A => B" is       *)
(* written B \/ ~A.                                                        *)
(***************************************************************************)
\* the cookie.expires stored for id, as the time it names, or -1 for none
StoredExpiry(S, id) ==
    LET e == S[id].text.cookie.expires
    IN  IF "string" \in DOMAIN e THEN e.string ELSE 0 - 1

\* the time a caller's session names in cookie.expires, or -1 for none
ExpiryOf(session) ==
    IF "date" \in DOMAIN session.cookie.expires
    THEN session.cookie.expires.date
    ELSE 0 - 1

\* id's stored record carries an expiry at or before the current time
StoredExpired(S, id) ==
    /\ id \in DOMAIN S
    /\ StoredExpiry(S, id) >= 0
    /\ StoredExpiry(S, id) <= now

\* id is in the record table with an unexpired record
Live(S, id) == id \in DOMAIN S /\ ~StoredExpired(S, id)

LiveCount(S) == Cardinality({id \in DOMAIN S : Live(S, id)})

InBoth(id) == id \in DOMAIN sessions /\ id \in DOMAIN session_timers
InNeither(id) == id \notin DOMAIN sessions /\ id \notin DOMAIN session_timers
InBothNext(id) == id \in DOMAIN sessions' /\ id \in DOMAIN session_timers'
InNeitherNext(id) == id \notin DOMAIN sessions' /\ id \notin DOMAIN session_timers'
TimerNextIs(id, t) == id \in DOMAIN session_timers' /\ session_timers'[id] = t

\* the callback that waits last in the queue after the step
Queued ==
    IF immediates' = << >>
    THEN [op |-> "none", args |-> <<[none |-> TRUE]>>]
    ELSE immediates'[Len(immediates')]

\* what every step that invokes `op` on id with or without a callback
\* does to the queue
Calls(op, id, callback) ==
    IF callback
    THEN /\ Len(immediates') = Len(immediates) + 1
         /\ Queued.op = op
         /\ Queued.id = id
    ELSE immediates' = immediates

\* what every step that operates on id alone leaves as it was
StepOn(id) ==
    /\ now' = now
    /\ \A other \in SessionIds \ {id} :
          IF other \in DOMAIN sessions
          THEN other \in DOMAIN sessions' /\ sessions'[other] = sessions[other]
          ELSE other \notin DOMAIN sessions'

\* what every set, touch, destroy of id does to the history of id
MaySet(id) ==
    /\ StepOn(id)
    /\ idleSweeps'[id] = IF id \in DOMAIN sessions THEN idleSweeps[id] ELSE 0
    /\ lookups'[id] = IF id \in DOMAIN sessions THEN lookups[id] ELSE {}
MayTouch(id) == StepOn(id) /\ idleSweeps'[id] < 0
MayDestroy(id) == StepOn(id) /\ idleSweeps'[id] < 0 /\ lookups'[id] = {}

\* the step is set(id, session), touch(id, session), destroy(id)
SetStep(id, session, callback) ==
    MaySet(id) /\ Calls("set", id, callback) /\ Set(id, session, callback)

TouchStep(id, session, callback) ==
    MayTouch(id) /\ Calls("touch", id, callback) /\ Touch(id, session, callback)

DestroyStep(id, callback) ==
    MayDestroy(id) /\ Calls("destroy", id, callback) /\ Destroy(id, callback)

SetsId(id) ==
    /\ MaySet(id)
    /\ \E session \in Sessions, callback \in BOOLEAN :
          SetStep(id, session, callback)

TouchesId(id) ==
    /\ MayTouch(id)
    /\ \E session \in Sessions, callback \in BOOLEAN :
          TouchStep(id, session, callback)

(***************************************************************************)
(* C1: between operations, the timer table and the record table hold the   *)
(* same set of ids.                                                        *)
(***************************************************************************)
C1_SameKeys == DOMAIN session_timers = DOMAIN sessions

\* one id was evicted by a lookup while the other one is stored
C1_Witness ==
    /\ lookups["a"] = {"expired"}
    /\ InNeither("a")
    /\ InBoth("b")

(***************************************************************************)
(* C2: a record whose stored cookie.expires is at or before the current    *)
(* time is not delivered by get and is not in the mapping delivered by     *)
(* all, also right after the set that stored it; that read removes the id  *)
(* from both tables.                                                       *)
(***************************************************************************)
C2_ExpiredNeverRead ==
    [][\A id \in SessionIds :
          StoredExpired(sessions, id) =>
             /\ \/ Queued.args = <<Null, Undefined>> /\ InNeitherNext(id)
                \/ ~Get(id)
             /\ \/ /\ Queued.op = "all"
                   /\ id \notin DOMAIN Queued.args[2]
                   /\ InNeitherNext(id)
                \/ ~All(TRUE)
             /\ \/ InNeitherNext(id)
                \/ ~All(FALSE)]_vars

\* get("a") right after set stored a past timestamp for "a": not found
C2_Witness ==
    /\ now = 0
    /\ lookups["a"] = {"expired"}
    /\ InNeither("a")
    /\ immediates = <<[op |-> "get", id |-> "a", args |-> <<Null, Undefined>>]>>

(***************************************************************************)
(* C3: with options.timeout = N >= 0, an id created by set and not read    *)
(* since is still in both tables after each of the first N checker cycles  *)
(* and is removed from both by cycle N + 1.                                *)
(***************************************************************************)
C3_EvictedAfterNPlus1 ==
    [][\A id \in SessionIds :
          (options.timeout >= 0 /\ idleSweeps[id] >= 0) =>
             /\ InBoth(id)
             /\ idleSweeps[id] <= options.timeout
             /\ \/ IF idleSweeps[id] < options.timeout
                   THEN InBothNext(id)
                   ELSE InNeitherNext(id)
                \/ ~Sweep]_vars

\* "a" has outlived N = MaxTimeout cycles and the next one evicts it
C3_Witness ==
    /\ options.timeout = MaxTimeout
    /\ idleSweeps["a"] = MaxTimeout
    /\ InBoth("a")

(***************************************************************************)
(* C4: with a negative options.timeout no checker runs: an id stored       *)
(* without cookie.expires stays in both tables, its timer at the           *)
(* configured value, over every step that does not read, destroy or clear  *)
(* it.                                                                     *)
(***************************************************************************)
ReadsOrRemoves(id) ==
    \/ Get(id)
    \/ TouchesId(id)
    \/ \E callback \in BOOLEAN : DestroyStep(id, callback)
    \/ \E callback \in BOOLEAN : All(callback)
    \/ \E callback \in BOOLEAN : Clear(callback)
    \/ Length

C4_NeverExpires ==
    [][options.timeout < 0 =>
          /\ ~session_timeout_checker
          /\ ~Sweep
          /\ \A id \in SessionIds :
                (id \in DOMAIN sessions /\ StoredExpiry(sessions, id) < 0) =>
                   /\ InBoth(id)
                   /\ session_timers[id] = options.timeout
                   /\ \/ InBothNext(id) /\ TimerNextIs(id, options.timeout)
                      \/ ReadsOrRemoves(id)]_vars

\* "a", set once and never read, is still stored after the clock ran out
C4_Witness ==
    /\ options.timeout < 0
    /\ now = MaxTime
    /\ idleSweeps["a"] = 0
    /\ InBoth("a")
    /\ StoredExpiry(sessions, "a") < 0

(***************************************************************************)
(* C5 as claimed: for every options.timeout >= 0 a successful get sets     *)
(* the id's timer to options.timeout, and an id that get has read since    *)
(* the last checker cycle survives the next cycle.                         *)
(***************************************************************************)
C5_Original ==
    [][\A id \in SessionIds :
          options.timeout >= 0 =>
             /\ \/ TimerNextIs(id, options.timeout)
                \/ ~(Live(sessions, id) /\ Get(id))
             /\ \/ InBothNext(id)
                \/ ~("get" \in lookups[id] /\ InBoth(id) /\ Sweep)]_vars

(***************************************************************************)
(* C5 amended: for every options.timeout >= 0 a successful get sets the    *)
(* id's timer to options.timeout; for options.timeout >= 1 an id that get  *)
(* has read since the last checker cycle survives the next cycle.          *)
(***************************************************************************)
C5_ReadKeepsAlive ==
    [][\A id \in SessionIds :
          options.timeout >= 0 =>
             /\ \/ TimerNextIs(id, options.timeout)
                \/ ~(Live(sessions, id) /\ Get(id))
             /\ \/ InBothNext(id)
                \/ ~(options.timeout >= 1 /\ "get" \in lookups[id]
                       /\ InBoth(id) /\ Sweep)]_vars

\* get has read "a" since the last cycle and its timer is back at the start
C5_Witness ==
    /\ options.timeout = 1
    /\ lookups["a"] = {"get"}
    /\ InBoth("a")
    /\ session_timers["a"] = 1
    /\ immediates # << >>
    /\ immediates[1].op = "get"

(***************************************************************************)
(* C6 as claimed: after set (creating or overwriting) and after a          *)
(* successful read, the id's timer equals options.timeout.                 *)
(***************************************************************************)
SuccessfulRead(id) ==
    /\ Live(sessions, id)
    /\ \/ Get(id)
       \/ TouchesId(id)
       \/ \E callback \in BOOLEAN : All(callback)
       \/ Length

C6_Original ==
    [][\A id \in SessionIds :
          \/ TimerNextIs(id, options.timeout)
          \/ ~(SetsId(id) \/ SuccessfulRead(id))]_vars

(***************************************************************************)
(* C6 amended: after a set that creates the id and after a successful      *)
(* read, the id's timer equals options.timeout; a set on an id that is     *)
(* already stored leaves its timer as it was.                              *)
(***************************************************************************)
C6_TimerReset ==
    [][\A id \in SessionIds :
          /\ \/ TimerNextIs(id, IF id \in DOMAIN sessions
                                THEN session_timers[id]
                                ELSE options.timeout)
             \/ ~SetsId(id)
          /\ \/ TimerNextIs(id, options.timeout)
             \/ ~SuccessfulRead(id)]_vars

\* "a" was set with a callback while its timer has run down by one cycle
C6_Witness ==
    /\ options.timeout = MaxTimeout
    /\ idleSweeps["a"] = 1
    /\ InBoth("a")
    /\ session_timers["a"] = MaxTimeout - 1
    /\ immediates = <<[op |-> "set", id |-> "a", args |-> << >>]>>

(***************************************************************************)
(* C7: set(id, r1) stores r1; a touch(id, r2) that finds the record        *)
(* unexpired keeps the stored non-cookie field and stores r2's cookie,     *)
(* and nothing else of r2.                                                 *)
(***************************************************************************)
StoresNext(id, data, expiry) ==
    /\ id \in DOMAIN sessions'
    /\ DOMAIN JSONparse(sessions'[id]) = {"data", "cookie"}
    /\ JSONparse(sessions'[id]).data = data
    /\ StoredExpiry(sessions', id) = expiry

C7_TouchKeepsFields ==
    [][\A id \in SessionIds :
          /\ \/ ~MaySet(id)
             \/ \A r \in Sessions, callback \in BOOLEAN :
                   \/ StoresNext(id, r.data, ExpiryOf(r))
                   \/ ~SetStep(id, r, callback)
          /\ \/ ~(Live(sessions, id) /\ MayTouch(id))
             \/ \A r \in Sessions, callback \in BOOLEAN :
                   \/ StoresNext(id, JSONparse(sessions[id]).data, ExpiryOf(r))
                   \/ ~TouchStep(id, r, callback)]_vars

\* "a" was touched: it holds data 2 and the cookie that touch gave it
C7_Witness ==
    /\ now = 0
    /\ "touch" \in lookups["a"]
    /\ InBoth("a")
    /\ JSONparse(sessions["a"]).data = 2
    /\ StoredExpiry(sessions, "a") = 1
    /\ immediates = <<[op |-> "touch", id |-> "a", args |-> << >>]>>

(***************************************************************************)
(* C8: touch on an id the lookup does not find (absent, or stored with an  *)
(* expired record) leaves the id in neither table, passes no error to the  *)
(* callback, and a get of the id right afterwards finds nothing.           *)
(***************************************************************************)
C8_TouchAbsentNoOp ==
    [][\A id \in SessionIds :
          \/ Live(sessions, id)
          \/ ~MayTouch(id)
          \/ \A r \in Sessions, callback \in BOOLEAN :
                \/ /\ InNeitherNext(id)
                   /\ callback => Queued.args = << >>
                   /\ getSession(sessions', session_timers', id).ret = Undefined
                \/ ~TouchStep(id, r, callback)]_vars

\* touch("a") has completed on an empty, never swept store: still empty
C8_Witness ==
    /\ ~session_timeout_checker
    /\ now = 0
    /\ lookups["a"] = {}
    /\ InNeither("a")
    /\ immediates = <<[op |-> "touch", id |-> "a", args |-> << >>]>>

(***************************************************************************)
(* C9: destroy(id) leaves id in neither table, passes no error to the      *)
(* callback, and a second destroy(id) would change neither table.          *)
(***************************************************************************)
C9_DestroyIdempotent ==
    [][\A id \in SessionIds, callback \in BOOLEAN :
          \/ /\ InNeitherNext(id)
             /\ callback => Queued.args = << >>
             /\ destroy(sessions', session_timers', id) =
                   [sessions |-> sessions', session_timers |-> session_timers']
          \/ ~DestroyStep(id, callback)]_vars

\* destroy("a") has completed while "b" is stored
C9_Witness ==
    /\ InNeither("a")
    /\ InBoth("b")
    /\ immediates = <<[op |-> "destroy", id |-> "a", args |-> << >>]>>

(***************************************************************************)
(* C10: length delivers the number of unexpired stored records, which is   *)
(* the number of entries all would deliver; that number is 0 after clear,  *)
(* grows by one when set creates an unexpired id and drops by one when an  *)
(* unexpired id is destroyed.                                              *)
(***************************************************************************)
C10_LengthCountsLive ==
    [][/\ \/ /\ Queued.op = "length"
             /\ CallbackArgs(Queued) = <<Null, LiveCount(sessions)>>
             /\ \A sessionIds \in ObjectKeys(sessions) :
                   CallbackArgs(Queued)[2] =
                      Cardinality(DOMAIN all(sessionIds, sessions,
                                             session_timers).ret)
          \/ ~Length
       /\ \A callback \in BOOLEAN :
             \/ LiveCount(sessions') = 0
             \/ ~Clear(callback)
       /\ \A id \in SessionIds :
             \/ id \in DOMAIN sessions
             \/ ~MaySet(id)
             \/ LiveCount(sessions') = LiveCount(sessions) + 1
             \/ \A r \in Sessions, callback \in BOOLEAN :
                   \/ (ExpiryOf(r) >= 0 /\ ExpiryOf(r) <= now)
                   \/ ~SetStep(id, r, callback)
       /\ \A id \in SessionIds, callback \in BOOLEAN :
             \/ ~Live(sessions, id)
             \/ LiveCount(sessions') = LiveCount(sessions) - 1
             \/ ~DestroyStep(id, callback)]_vars

\* length counted one record and evicted the expired other one
C10_Witness ==
    /\ lookups["b"] = {"expired"}
    /\ InBoth("a")
    /\ immediates # << >>
    /\ immediates[1].op = "length"
    /\ CallbackArgs(immediates[1]) = <<Null, 1>>

(***************************************************************************)
(* C11 as claimed: get delivers not found for an id that was never set;    *)
(* after set(id, r), creating or overwriting, a get(id) issued while r is  *)
(* unexpired and before any destroy, clear, touch or eviction of id        *)
(* delivers a record equal to r.                                           *)
(***************************************************************************)
\* the session r names an expiry at or before the current time
ExpiredRecord(r) == ExpiryOf(r) >= 0 /\ ExpiryOf(r) <= now

\* r is what the latest set gave id, and id was not touched or removed since
LatestSet(id, r) == written[id] = r /\ ~ExpiredRecord(r)

\* the step queues the callback of a get
QueuesGet ==
    /\ Len(immediates') = Len(immediates) + 1
    /\ Queued.op = "get"

C11_Original ==
    [][\A id \in TraceIds :
          \/ ~(QueuesGet /\ Get(id))
          \/ /\ written[id] = NeverSet => Queued.args = <<Null, Undefined>>
             /\ \A r \in TraceSessions :
                   LatestSet(id, r) => Queued.args = <<Null, r>>]_vars

(***************************************************************************)
(* C11 amended: get delivers not found for an id that was never set;       *)
(* after set(id, r), creating or overwriting, a get(id) issued while r is  *)
(* unexpired and before any destroy, clear, touch or eviction of id        *)
(* delivers r's fields, a cookie.expires that r gave as a Date being       *)
(* delivered as the ISO string of that time.                               *)
(***************************************************************************)
AsDelivered(r) ==
    [r EXCEPT !.cookie.expires =
        IF "date" \in DOMAIN @ THEN StringOf(@.date) ELSE @]

C11_GetAfterSet ==
    [][\A id \in TraceIds :
          \/ ~(QueuesGet /\ Get(id))
          \/ /\ written[id] = NeverSet => Queued.args = <<Null, Undefined>>
             /\ \A r \in TraceSessions :
                   LatestSet(id, r) => Queued.args = <<Null, AsDelivered(r)>>]_vars

\* set("a", r) with a future Date, then get("a"): r with the ISO string
C11_Witness ==
    /\ Len(invoked) = MaxCalls
    /\ invoked[1].op = "set"
    /\ invoked[MaxCalls].op = "get"
    /\ "cookie" \in DOMAIN written["a"]
    /\ ExpiryOf(written["a"]) = MaxTime
    /\ invoked[MaxCalls].args = <<Null, AsDelivered(written["a"])>>
    /\ now < MaxTime

(***************************************************************************)
(* C12: all delivers a mapping whose ids are exactly the ids stored with   *)
(* an unexpired record when it is called, each with its stored record;     *)
(* and every id stored with an expired record is in neither table when     *)
(* all returns.                                                            *)
(***************************************************************************)
\* what every step that invokes all with or without a callback does to
\* the queue
CallsAll(callback) ==
    IF callback
    THEN Len(immediates') = Len(immediates) + 1 /\ Queued.op = "all"
    ELSE immediates' = immediates

LiveIds(S) == {id \in DOMAIN S : Live(S, id)}

C12_AllExact ==
    [][\A callback \in BOOLEAN :
          \/ /\ callback =>
                   /\ Queued.op = "all"
                   /\ Queued.args[1] = Null
                   /\ DOMAIN Queued.args[2] = LiveIds(sessions)
                   /\ \A id \in LiveIds(sessions) :
                         Queued.args[2][id] = sessions[id].text
             /\ \A id \in SessionIds :
                   StoredExpired(sessions, id) => InNeitherNext(id)
             /\ \A id \in LiveIds(sessions) :
                   InBothNext(id) /\ sessions'[id] = sessions[id]
          \/ ~(CallsAll(callback) /\ All(callback))]_vars

\* all found "b" alone and evicted the expired "a"
C12_Witness ==
    /\ lookups["a"] = {"expired"}
    /\ lookups["b"] = {"all"}
    /\ InNeither("a")
    /\ immediates # << >>
    /\ immediates[1].op = "all"
    /\ DOMAIN immediates[1].args[2] = {"b"}
    /\ immediates[1].args[2]["b"] = sessions["b"].text

(***************************************************************************)
(* C13: one checker cycle, for every id in the timer table when it         *)
(* starts: a timer of 0 takes the id out of both tables, whatever the      *)
(* record's cookie.expires; any other timer drops by exactly one and the   *)
(* id's stored record stays as it was.  An id outside the timer table      *)
(* stays outside.                                                          *)
(***************************************************************************)
C13_SweepCycle ==
    [][\/ \A id \in SessionIds :
             IF id \notin DOMAIN session_timers
             THEN id \notin DOMAIN session_timers'
             ELSE IF session_timers[id] = 0
                  THEN InNeitherNext(id)
                  ELSE /\ TimerNextIs(id, session_timers[id] - 1)
                       /\ id \in DOMAIN sessions'
                       /\ sessions'[id] = sessions[id]
       \/ ~Sweep]_vars

\* one cycle has taken "a" down to 0 and the next one destroys it, though
\* its cookie.expires lies in the future; "b" was created after that cycle
C13_Witness ==
    /\ options.timeout = 1
    /\ idleSweeps["a"] = 1
    /\ InBoth("a")
    /\ session_timers["a"] = 0
    /\ StoredExpiry(sessions, "a") > now
    /\ idleSweeps["b"] = 0
    /\ session_timers["b"] = 1

(***************************************************************************)
(* C14 as claimed: a touch that finds the id's record unexpired sets the   *)
(* id's timer to options.timeout, as a successful get does; and for every  *)
(* options.timeout >= 0 an id that touch has read since the last checker   *)
(* cycle survives the next cycle.                                          *)
(***************************************************************************)
TouchResetsTimer(id) ==
    \/ ~Live(sessions, id)
    \/ /\ TimerNextIs(id, options.timeout)
       /\ session_timers'[id] =
             getSession(sessions, session_timers, id).session_timers[id]
    \/ ~TouchesId(id)

C14_Original ==
    [][\A id \in SessionIds :
          /\ TouchResetsTimer(id)
          /\ \/ InBothNext(id)
             \/ ~(options.timeout >= 0 /\ "touch" \in lookups[id]
                    /\ InBoth(id) /\ Sweep)]_vars

(***************************************************************************)
(* C14 amended: a touch that finds the id's record unexpired sets the      *)
(* id's timer to options.timeout, as a successful get does; and for every  *)
(* options.timeout >= 1 an id that touch has read since the last checker   *)
(* cycle survives the next cycle.                                          *)
(***************************************************************************)
C14_TouchKeepsAlive ==
    [][\A id \in SessionIds :
          /\ TouchResetsTimer(id)
          /\ \/ InBothNext(id)
             \/ ~(options.timeout >= 1 /\ "touch" \in lookups[id]
                    /\ InBoth(id) /\ Sweep)]_vars

\* "a" has run down to 0, was touched, and its timer is back at the start
C14_Witness ==
    /\ options.timeout = 1
    /\ lookups["a"] = {"touch"}
    /\ InBoth("a")
    /\ session_timers["a"] = 1
    /\ immediates = <<[op |-> "touch", id |-> "a", args |-> << >>]>>

(***************************************************************************)
(* C15: the step that invokes an operation changes the tables and leaves   *)
(* the callback waiting in the queue, with the result computed from the    *)
(* tables as they were at the invocation; no callback runs in that step.   *)
(* The later step that runs a callback changes neither table and gives     *)
(* the callback the result computed at the invocation, whatever happened   *)
(* to the id in between.                                                   *)
(***************************************************************************)
\* what the callback of the k-th invocation is to be given
ResultAtInvocation(k) ==
    IF invoked[k].op = "get"
    THEN invoked[k].args
    ELSE IF invoked[k].op = "all"
         THEN invoked[k].args
         ELSE IF invoked[k].op = "length"
              THEN <<Null, Cardinality(DOMAIN invoked[k].args[2])>>
              ELSE << >>

C15_DeferredResult ==
    [][/\ invoked' # invoked =>
             /\ delivered' = delivered
             /\ immediates' = Append(immediates, invoked'[Len(invoked')])
             /\ \A id \in TraceIds :
                   (Queued.op = "get" /\ Queued.id = id) =>
                      Queued.args =
                         <<Null, getSession(sessions, session_timers, id).ret>>
       /\ delivered' # delivered =>
             /\ sessions' = sessions
             /\ session_timers' = session_timers
             /\ Len(delivered') = Len(delivered) + 1
             /\ Len(delivered') <= Len(invoked)
             /\ delivered'[Len(delivered')] =
                   [op |-> invoked[Len(delivered')].op,
                    args |-> ResultAtInvocation(Len(delivered'))]]_vars

\* the callback of get("a") waits with the record found at the invocation,
\* and "a" has been destroyed since
C15_Witness ==
    /\ Len(immediates) = 2
    /\ immediates[1].op = "get"
    /\ immediates[1].args[2] # Undefined
    /\ immediates[2].op = "destroy"
    /\ InNeither("a")
    /\ delivered = << >>

(***************************************************************************)
(* C16: a read of an id whose stored record has no cookie fails for that   *)
(* id alone: a get or touch of it leaves the stored record, the timer and  *)
(* the read result of every other id as they were; all still delivers     *)
(* every other unexpired record; and a checker cycle still handles every   *)
(* id of the timer table.                                                  *)
(***************************************************************************)
\* id's stored record has no cookie: sess.cookie.expires throws
Unreadable(S, id) == id \in DOMAIN S /\ "cookie" \notin DOMAIN JSONparse(S[id])

\* id's stored record can be read and is unexpired
Valid(S, id) == id \in DOMAIN S /\ ~Unreadable(S, id) /\ ~StoredExpired(S, id)

\* the record, the timer and the read result of `other` are unchanged
SameFor(other) ==
    /\ IF other \in DOMAIN sessions
       THEN other \in DOMAIN sessions' /\ sessions'[other] = sessions[other]
       ELSE other \notin DOMAIN sessions'
    /\ IF other \in DOMAIN session_timers
       THEN /\ other \in DOMAIN session_timers'
            /\ session_timers'[other] = session_timers[other]
       ELSE other \notin DOMAIN session_timers'
    /\ other \notin DOMAIN sessions \/ Unreadable(sessions, other)
          \/ getSession(sessions', session_timers', other).ret =
                getSession(sessions, session_timers, other).ret

ReadFailureIsLocal ==
    \A id \in SessionIds :
       \/ ~Unreadable(sessions, id)
       \/ \A other \in SessionIds \ {id} : SameFor(other)
       \/ ~(\/ Get(id)
            \/ \E session \in Sessions, callback \in BOOLEAN :
                  Touch(id, session, callback))

AllDeliversTheRest ==
    \/ \A id \in SessionIds : ~Unreadable(sessions, id)
    \/ /\ Len(immediates') = Len(immediates) + 1
       /\ Queued.op = "all"
       /\ \A other \in SessionIds :
             Valid(sessions, other) =>
                /\ other \in DOMAIN Queued.args[2]
                /\ Queued.args[2][other] = JSONparse(sessions[other])
    \/ ~All(TRUE)

SweepIsWhole ==
    \/ \A id \in DOMAIN session_timers :
          IF session_timers[id] = 0
          THEN InNeitherNext(id)
          ELSE TimerNextIs(id, session_timers[id] - 1)
    \/ ~Sweep

C16_Original ==
    [][ReadFailureIsLocal /\ AllDeliversTheRest /\ SweepIsWhole]_vars

(***************************************************************************)
(* C17: with options.timeout = N >= 0 every timer lies in 0..N; with a     *)
(* negative options.timeout every timer equals options.timeout.            *)
(***************************************************************************)
C17_TimerRange ==
    \A id \in DOMAIN session_timers :
       IF options.timeout >= 0
       THEN 0 <= session_timers[id] /\ session_timers[id] <= options.timeout
       ELSE session_timers[id] = options.timeout

\* the checker has taken "a" down to 0 while "b" is at the configured value
C17_Witness ==
    /\ options.timeout = MaxTimeout
    /\ InBoth("a")
    /\ InBoth("b")
    /\ session_timers["a"] = 0
    /\ session_timers["b"] = MaxTimeout
    /\ idleSweeps["a"] = MaxTimeout

(***************************************************************************)
(* C18: get, set, touch and destroy of id leave the stored record and the  *)
(* timer of every other id as they were; a get or touch of an id that is   *)
(* not in the record table leaves both tables as they were.                *)
(***************************************************************************)
\* the step is get, set, touch or destroy of id
OperatesOn(id) ==
    /\ now' = now
    /\ \/ QueuesGet /\ Get(id)
       \/ \E session \in Sessions, callback \in BOOLEAN :
             Calls("set", id, callback) /\ Set(id, session, callback)
       \/ \E session \in Sessions, callback \in BOOLEAN :
             Calls("touch", id, callback) /\ Touch(id, session, callback)
       \/ \E callback \in BOOLEAN :
             Calls("destroy", id, callback) /\ Destroy(id, callback)

\* the record and the timer of `other` are unchanged
FrameOf(other) ==
    /\ IF other \in DOMAIN sessions
       THEN other \in DOMAIN sessions' /\ sessions'[other] = sessions[other]
       ELSE other \notin DOMAIN sessions'
    /\ IF other \in DOMAIN session_timers
       THEN /\ other \in DOMAIN session_timers'
            /\ session_timers'[other] = session_timers[other]
       ELSE other \notin DOMAIN session_timers'

C18_Frame ==
    [][\A id \in SessionIds :
          /\ \/ \A other \in SessionIds \ {id} : FrameOf(other)
             \/ ~OperatesOn(id)
          /\ \/ id \in DOMAIN sessions
             \/ sessions' = sessions /\ session_timers' = session_timers
             \/ ~(\/ QueuesGet /\ Get(id)
                  \/ \E session \in Sessions, callback \in BOOLEAN :
                        Calls("touch", id, callback)
                           /\ Touch(id, session, callback))]_vars

\* get("a") has found nothing and has left "b", with its timer run down
C18_Witness ==
    /\ options.timeout = MaxTimeout
    /\ InNeither("a")
    /\ lookups["a"] = {}
    /\ InBoth("b")
    /\ idleSweeps["b"] = MaxTimeout
    /\ session_timers["b"] = 0
    /\ immediates = <<[op |-> "get", id |-> "a", args |-> <<Null, Undefined>>]>>

(***************************************************************************)
(* C19: all and length set the timer of every id they find unexpired to    *)
(* options.timeout; so with options.timeout >= 1 an id that all or length  *)
(* has read, or that set has created, since the last checker cycle         *)
(* survives the next cycle.                                                *)
(***************************************************************************)
QueuesLength ==
    /\ Len(immediates') = Len(immediates) + 1
    /\ Queued.op = "length"

C19_AllKeepsAlive ==
    [][/\ \A callback \in BOOLEAN :
             \/ \A id \in LiveIds(sessions) :
                   TimerNextIs(id, options.timeout)
             \/ ~(CallsAll(callback) /\ All(callback))
       /\ \/ \A id \in LiveIds(sessions) : TimerNextIs(id, options.timeout)
          \/ ~(QueuesLength /\ Length)
       /\ \A id \in SessionIds :
             \/ InBothNext(id)
             \/ ~(/\ options.timeout >= 1
                  /\ "all" \in lookups[id] \/ idleSweeps[id] = 0
                  /\ InBoth(id)
                  /\ Sweep)]_vars

\* length has read both ids, and their timers are at the configured value
C19_Witness ==
    /\ options.timeout = MaxTimeout
    /\ lookups["a"] = {"all"}
    /\ lookups["b"] = {"all"}
    /\ InBoth("a")
    /\ InBoth("b")
    /\ session_timers["a"] = MaxTimeout
    /\ session_timers["b"] = MaxTimeout
    /\ immediates # << >>
    /\ immediates[1].op = "length"
    /\ CallbackArgs(immediates[1]) = <<Null, 2>>

(***************************************************************************)
(* C20: every operation invoked with a callback has that callback run      *)
(* eventually and exactly once, and the callbacks run in the order of the  *)
(* invocations; the callback of length counts as one, run with the number  *)
(* of records its all found.                                               *)
(***************************************************************************)
\* the k-th callback run is the callback of the k-th invocation
RunInOrder ==
    \A k \in 1..Len(delivered) :
       /\ k <= Len(invoked)
       /\ delivered[k] = [op |-> invoked[k].op, args |-> ResultAtInvocation(k)]

\* every callback invoked has run or waits, once
NoneLostOrTwice == Len(delivered) + Len(immediates) = Len(invoked)

=============================================================================
